---- MODULE Spec2Model ----
(***************************************************************************)
(* A model of the chunking / indexing / retrieval pipeline:                *)
(*   src/ingestion/chunk_pages.py    split_paragraphs, chunk_page, main    *)
(*   src/vector_store/build_index.py is_noise, main                        *)
(*   src/app/answer_question.py      get_relevant_chunks                   *)
(*   src/vector_store/retrieve.py    main                                  *)
(*                                                                         *)
(* A text is a sequence of one-character strings.  Offsets are Python's:   *)
(* 0-based, slices half-open.                                              *)
(***************************************************************************)
EXTENDS Integers, Sequences, FiniteSets, TLC

VARIABLES
    ing_pc,         \* chunk_pages.main: position ("idle", "loop", "written")
    pages,          \* chunk_pages.main: the page records read from IN_PATH
    page_idx,       \* chunk_pages.main: how many pages the loop has consumed
    page_chunks,    \* chunk_pages.main: the chunks of the last chunk_page call
    next_chunk_id,  \* chunk_pages.main: the threaded id counter
    all_chunks,     \* chunk_pages.main: the chunks accumulated so far
    chunks_file,    \* data/processed/chunks.json (NoFile until written)
    nz_text,        \* is_noise: the argument of the call
    nz_result,      \* is_noise: whether it was called, and the value returned
    idx_pc,         \* build_index.main: position
    idx_chunks,     \* build_index.main: the local `chunks`
    idx_filtered,   \* build_index.main: the local `filtered`
    idx_old,        \* the ids the collection held when the build last deleted it
    store,          \* the Chroma client: collection name -> entries
    rd_pc,          \* the reader: position
    rd_req,         \* the reader: entry point and arguments
    rd_out,         \* the reader: outcome and returned triples
    rd_obs          \* what the store and the Indexer were when the reader touched them

vars == <<ing_pc, pages, page_idx, page_chunks, next_chunk_id, all_chunks, chunks_file,
          nz_text, nz_result, idx_pc, idx_chunks, idx_filtered, idx_old, store,
          rd_pc, rd_req, rd_out, rd_obs>>

chunkVars == <<ing_pc, pages, page_idx, page_chunks, next_chunk_id, all_chunks, chunks_file>>
noiseVars == <<nz_text, nz_result>>
indexVars == <<idx_pc, idx_chunks, idx_filtered, idx_old>>
readVars  == <<rd_pc, rd_req, rd_out, rd_obs>>

---------------------------------------------------------------------------
(* Python strings *)

\* Python's None where a string is expected (a JSON null text, doc_id=None).
None == <<"<None>">>

\* Python's None where a doc_id string is expected.
NoDocId == "<None>"

\* What the variables hold before the operation that sets them has run.
NoResult == [called |-> FALSE, noise |-> FALSE]
NoStore == [n \in {} |-> {}]
NoRequest == [entry |-> "none", question |-> <<>>, k |-> 0, doc_id |-> NoDocId]
NoOutcome == [outcome |-> "none", results |-> <<>>]
NoObservation ==
    [absent |-> FALSE, rebuilding |-> FALSE, built |-> FALSE, old |-> {}, new |-> {}]

\* str.isspace / the regex class \s, over the characters the model uses.
IsSpace(c) == c \in {" ", "\n", "\r", "\t"}

\* t[i], 0-based.
At(t, i) == t[i + 1]

\* t[s:e], with Python's clamping of e.
Slice(t, s, e) == SubSeq(t, s + 1, IF e > Len(t) THEN Len(t) ELSE e)

\* str.strip().
Strip(t) ==
    IF \A i \in 1..Len(t) : IsSpace(t[i]) THEN <<>>
    ELSE LET lo == CHOOSE i \in 1..Len(t) :
                     ~IsSpace(t[i]) /\ \A j \in 1..(i - 1) : IsSpace(t[j])
             hi == CHOOSE i \in 1..Len(t) :
                     ~IsSpace(t[i]) /\ \A j \in (i + 1)..Len(t) : IsSpace(t[j])
         IN SubSeq(t, lo, hi)

\* text.replace("\r\n", "\n") over positions lo..hi (1-based), halving the range.
RECURSIVE ReplaceRange(_, _, _)
ReplaceRange(t, lo, hi) ==
    IF lo > hi THEN <<>>
    ELSE IF lo = hi
         THEN IF t[lo] = "\r" /\ lo < Len(t) /\ t[lo + 1] = "\n" THEN <<>> ELSE <<t[lo]>>
         ELSE LET mid == (lo + hi) \div 2
              IN ReplaceRange(t, lo, mid) \o ReplaceRange(t, mid + 1, hi)

ReplaceCRLF(t) == ReplaceRange(t, 1, Len(t))

\* "\n\n".join(parts)
RECURSIVE Join(_)
Join(parts) ==
    IF parts = <<>> THEN <<>>
    ELSE IF Len(parts) = 1 THEN parts[1]
    ELSE parts[1] \o <<"\n", "\n">> \o Join(Tail(parts))

---------------------------------------------------------------------------
(* chunk_pages.py *)

MAX_CHARS_PER_CHUNK == 800

\* The end of the run of whitespace that starts at offset e + 1.
SpaceRunEnd(t, e) ==
    CHOOSE r \in (e + 1)..Len(t) :
        /\ r = Len(t) \/ ~IsSpace(At(t, r))
        /\ \A j \in (e + 1)..(r - 1) : IsSpace(At(t, j))

\* The regex alternative \n\s*\n matches at offset e.
BlankLineAt(t, e) ==
    /\ e < Len(t)
    /\ At(t, e) = "\n"
    /\ \E j \in (e + 1)..(SpaceRunEnd(t, e) - 1) : At(t, j) = "\n"

\* Where that match ends: \s* is greedy, so after the last newline of the run.
BlankLineEnd(t, e) ==
    1 + (CHOOSE j \in (e + 1)..(SpaceRunEnd(t, e) - 1) :
            /\ At(t, j) = "\n"
            /\ \A j2 \in (j + 1)..(SpaceRunEnd(t, e) - 1) : At(t, j2) # "\n")

\* The regex alternative $ matches at offset e (the end, or before a final newline).
DollarAt(t, e) == e = Len(t) \/ (e = Len(t) - 1 /\ At(t, e) = "\n")

\* The lazy group (.*?) started at s ends at the first offset a terminator matches.
GroupEnd(t, s) ==
    CHOOSE e \in s..Len(t) :
        /\ BlankLineAt(t, e) \/ DollarAt(t, e)
        /\ \A f \in s..(e - 1) : ~(BlankLineAt(t, f) \/ DollarAt(t, f))

\* pattern.finditer(text) from offset s, keeping the non-blank groups.
RECURSIVE MatchesFrom(_, _)
MatchesFrom(t, s) ==
    LET e == GroupEnd(t, s)
        paragraph_stripped == Strip(Slice(t, s, e))
        found == IF e > s /\ paragraph_stripped # <<>>
                 THEN <<[text |-> paragraph_stripped, start |-> s, end |-> e]>>
                 ELSE <<>>
    IN IF BlankLineAt(t, e)
       THEN found \o MatchesFrom(t, BlankLineEnd(t, e))
       ELSE found   \* matched $: what is left is at most one final newline

split_paragraphs(text) ==
    MatchesFrom(ReplaceCRLF(IF text = None THEN <<>> ELSE text), 0)

\* current_start / current_end before a chunk is started (Python's None).
NoOffset == -1

\* A chunk_page that numbers every page's chunks from 0.
NewAccumulatorPerPage(start_chunk_id) ==
    [chunks |-> <<>>, chunk_id |-> 0,
     current_text_parts |-> <<>>, current_start |-> NoOffset, current_end |-> NoOffset]

\* The accumulator of chunk_page's loop, as it is before the first paragraph.
NewAccumulator(start_chunk_id) ==
    [chunks |-> <<>>, chunk_id |-> start_chunk_id,
     current_text_parts |-> <<>>, current_start |-> NoOffset, current_end |-> NoOffset]

\* flush_current(): emit the accumulated paragraphs as one chunk, if there are any.
flush_current(acc, p) ==
    IF acc.current_text_parts = <<>> \/ acc.current_start = NoOffset
                                     \/ acc.current_end = NoOffset
    THEN acc
    ELSE LET chunk_text == Strip(Join(acc.current_text_parts))
         IN IF chunk_text = <<>> THEN acc
            ELSE [chunks |-> Append(acc.chunks,
                        [doc_id |-> p.doc_id, title |-> p.title,
                         chunk_id |-> acc.chunk_id, source |-> p.source,
                         page |-> p.page, text |-> chunk_text,
                         char_start |-> acc.current_start,
                         char_end |-> acc.current_end]),
                  chunk_id |-> acc.chunk_id + 1,
                  current_text_parts |-> <<>>,
                  current_start |-> NoOffset, current_end |-> NoOffset]

\* A flush as soon as the limit is reached, not only when it is exceeded.
ExceedsLimitInclusive(current_text_parts, para_text) ==
    Len(Join(current_text_parts)) + 2 + Len(para_text) >= MAX_CHARS_PER_CHUNK

\* projected_length > MAX_CHARS_PER_CHUNK
ExceedsLimit(current_text_parts, para_text) ==
    Len(Join(current_text_parts)) + 2 + Len(para_text) > MAX_CHARS_PER_CHUNK

\* One iteration of `for para_text, para_start, para_end in paragraphs`.
AddParagraph(acc, para, p) ==
    IF acc.current_text_parts = <<>>
    THEN [acc EXCEPT !.current_text_parts = <<para.text>>,
                     !.current_start = para.start, !.current_end = para.end]
    ELSE IF ExceedsLimit(acc.current_text_parts, para.text)
         THEN [flush_current(acc, p) EXCEPT !.current_text_parts = <<para.text>>,
                     !.current_start = para.start, !.current_end = para.end]
         ELSE [acc EXCEPT !.current_text_parts = Append(@, para.text),
                          !.current_end = para.end]

RECURSIVE ParagraphLoop(_, _, _, _)
ParagraphLoop(paragraphs, i, acc, p) ==
    IF i > Len(paragraphs) THEN acc
    ELSE ParagraphLoop(paragraphs, i + 1, AddParagraph(acc, paragraphs[i], p), p)

\* chunk_page(text=p.text, page=p.page, ..., start_chunk_id): (chunks, next id).
chunk_page(p, start_chunk_id) ==
    LET paragraphs == split_paragraphs(p.text)
    IN IF paragraphs = <<>> THEN [chunks |-> <<>>, next |-> start_chunk_id]
       ELSE IF Strip(IF p.text = None THEN <<>> ELSE p.text) = <<>>
            THEN [chunks |-> <<>>, next |-> start_chunk_id]
            ELSE LET acc == flush_current(
                        ParagraphLoop(paragraphs, 1, NewAccumulator(start_chunk_id), p), p)
                 IN [chunks |-> acc.chunks, next |-> acc.chunk_id]

\* chunks.json before chunk_pages.main has written it.
NoFile == [exists |-> FALSE, chunks |-> <<>>]

\* main(): pages = json.loads(...); all_chunks = []; next_chunk_id = 0
ReadPages(input) ==
    /\ ing_pc \in {"idle", "written"}
    /\ ing_pc' = "loop"
    /\ pages' = input
    /\ page_idx' = 0
    /\ page_chunks' = <<>>
    /\ all_chunks' = <<>>
    /\ next_chunk_id' = 0
    /\ UNCHANGED chunks_file

\* main(): one iteration of `for p in pages`.
ChunkNextPage ==
    /\ ing_pc = "loop"
    /\ page_idx < Len(pages)
    /\ LET r == chunk_page(pages[page_idx + 1], next_chunk_id)
       IN /\ page_chunks' = r.chunks
          /\ next_chunk_id' = r.next
          /\ all_chunks' = all_chunks \o r.chunks
    /\ page_idx' = page_idx + 1
    /\ UNCHANGED <<ing_pc, pages, chunks_file>>

\* main(): OUT_PATH.write_text(json.dumps(all_chunks)); the process ends and
\* its locals with it.
WriteChunks ==
    /\ ing_pc = "loop"
    /\ page_idx = Len(pages)
    /\ chunks_file' = [exists |-> TRUE, chunks |-> all_chunks]
    /\ ing_pc' = "written"
    /\ pages' = <<>> /\ page_idx' = 0 /\ page_chunks' = <<>>
    /\ all_chunks' = <<>> /\ next_chunk_id' = 0

---------------------------------------------------------------------------
(* build_index.py: is_noise *)

UpperCase == <<"A", "B", "C", "D", "E", "F", "G", "H", "I", "J", "K", "L", "M",
               "N", "O", "P", "Q", "R", "S", "T", "U", "V", "W", "X", "Y", "Z">>
LowerCase == <<"a", "b", "c", "d", "e", "f", "g", "h", "i", "j", "k", "l", "m",
               "n", "o", "p", "q", "r", "s", "t", "u", "v", "w", "x", "y", "z">>

LowerChar(c) ==
    IF \E i \in 1..26 : UpperCase[i] = c
    THEN LowerCase[CHOOSE i \in 1..26 : UpperCase[i] = c]
    ELSE c

\* str.lower()
lower(t) == [i \in 1..Len(t) |-> LowerChar(t[i])]

\* sub occurs in t at offset i.
OccursAt(t, sub, i) ==
    /\ i + Len(sub) <= Len(t)
    /\ \A j \in 1..Len(sub) : t[i + j] = sub[j]

\* sub in t
Contains(t, sub) == \E i \in 0..(Len(t) - Len(sub)) : OccursAt(t, sub, i)

\* t.count(sub): occurrences that do not overlap, taken from the left.
RECURSIVE CountFrom(_, _, _)
CountFrom(t, sub, s) ==
    IF \A i \in s..(Len(t) - Len(sub)) : ~OccursAt(t, sub, i) THEN 0
    ELSE LET first == CHOOSE i \in s..(Len(t) - Len(sub)) :
                        /\ OccursAt(t, sub, i)
                        /\ \A j \in s..(i - 1) : ~OccursAt(t, sub, j)
         IN 1 + CountFrom(t, sub, first + Len(sub))

Count(t, sub) == CountFrom(t, sub, 0)

ISBN == <<"i", "s", "b", "n">>
ISSN == <<"i", "s", "s", "n">>
DOI == <<"d", "o", "i">>
URN == <<"u", "r", "n", ":">>
SOURCES == <<"s", "o", "u", "r", "c", "e", "s">>
HTTP == <<"h", "t", "t", "p", ":", "/", "/">>
HTTPS == <<"h", "t", "t", "p", "s", ":", "/", "/">>
WWW == <<"w", "w", "w", ".">>

SOURCES_WINDOW == 50
URL_LIMIT == 2
MIN_CONTENT_CHARS == 150

\* A length test on the raw text, whitespace included.
TooShortUntrimmed(text) == Len(text) < MIN_CONTENT_CHARS

\* len(text.strip()) < 150
TooShort(text) == Len(Strip(text)) < MIN_CONTENT_CHARS

\* "sources" in t[:50]
SourcesHeader(t) == Contains(Slice(t, 0, SOURCES_WINDOW), SOURCES)

is_noise(text) ==
    LET t == lower(text)
    IN IF Contains(t, ISBN) \/ Contains(t, ISSN) \/ Contains(t, DOI) \/ Contains(t, URN)
       THEN TRUE
       ELSE IF SourcesHeader(t) THEN TRUE
       ELSE IF Count(t, HTTP) + Count(t, HTTPS) + Count(t, WWW) >= URL_LIMIT THEN TRUE
       ELSE IF TooShort(text) THEN TRUE
       ELSE FALSE

---------------------------------------------------------------------------
(* build_index.py: main, and the Chroma calls it and the readers make *)

COLLECTION_NAME == "rag-chunks"

Digits == <<"0", "1", "2", "3", "4", "5", "6", "7", "8", "9">>

\* str(n) for n >= 0
RECURSIVE str(_)
str(n) == IF n < 10 THEN Digits[n + 1] ELSE str(n \div 10) \o Digits[(n % 10) + 1]

\* model.encode(..., normalize_embeddings=True): the embedding black box, a
\* fixed function of the text alone.
EMBED_BUCKETS == 7
encode(text) == (Len(text) + Cardinality({i \in 1..Len(text) : text[i] = "a"})) % EMBED_BUCKETS

\* The store's distance between two embeddings.
Distance(u, v) == IF u >= v THEN u - v ELSE v - u

\* metadatas = [{"page": ..., "source": ..., "chunk_id": ...} for c in filtered]
Metadata(c) == [page |-> c.page, source |-> c.source, chunk_id |-> c.chunk_id]

\* What collection.add stores under id str(c["chunk_id"]).
EntryOf(c) == [document |-> c.text, metadata |-> Metadata(c), embedding |-> encode(c.text)]

\* meta.get(key)
MetaGet(meta, key) == IF key \in DOMAIN meta THEN meta[key] ELSE NoDocId

\* filtered = [c for c in chunks if not is_noise(c["text"])]
Filtered(chunks) == SelectSeq(chunks, LAMBDA c : ~is_noise(c.text))

\* client.list_collections() names
Exists(st) == COLLECTION_NAME \in DOMAIN st

\* client.delete_collection(name=COLLECTION_NAME)
Deleted(st) == [n \in DOMAIN st \ {COLLECTION_NAME} |-> st[n]]

\* client.get_or_create_collection(name=COLLECTION_NAME)
GotOrCreated(st) ==
    IF Exists(st) THEN st
    ELSE [n \in DOMAIN st \cup {COLLECTION_NAME} |->
            IF n = COLLECTION_NAME THEN [id \in {} |-> 0] ELSE st[n]]

\* collection.add(ids, documents, metadatas, embeddings): an id already there is kept.
Added(st, filtered) ==
    LET coll == st[COLLECTION_NAME]
        ids == {str(filtered[i].chunk_id) : i \in 1..Len(filtered)}
        rec(id) == EntryOf(filtered[CHOOSE i \in 1..Len(filtered) :
                                       str(filtered[i].chunk_id) = id])
    IN [st EXCEPT ![COLLECTION_NAME] =
            [id \in DOMAIN coll \cup ids |-> IF id \in DOMAIN coll THEN coll[id] ELSE rec(id)]]

\* collection.query(query_embeddings, n_results, where): the n_results nearest
\* entries that pass the equality filter, nearest first (ties in insertion order).
Query(coll, qvec, n_results, where) ==
    LET hits == {id \in DOMAIN coll :
                    \A key \in DOMAIN where :
                        key \in DOMAIN coll[id].metadata /\ coll[id].metadata[key] = where[key]}
        dist(id) == Distance(qvec, coll[id].embedding)
        before(a, b) ==
            \/ dist(a) < dist(b)
            \/ dist(a) = dist(b) /\ coll[a].metadata.chunk_id < coll[b].metadata.chunk_id
        rank(id) == 1 + Cardinality({a \in hits : before(a, id)})
        n == IF n_results < Cardinality(hits) THEN n_results ELSE Cardinality(hits)
    IN [r \in 1..n |->
          LET id == CHOOSE i \in hits : rank(i) = r
          IN <<coll[id].document, coll[id].metadata, dist(id)>>]

\* A build that leaves an existing collection in place.
ClearedKeeping(st) == st

\* existing = list_collections(); if COLLECTION_NAME in existing: delete_collection
Cleared(st) == IF Exists(st) THEN Deleted(st) ELSE st

\* main(): load_chunks() and the noise filter.
IdxLoad ==
    /\ idx_pc \in {"idle", "done", "failed"}
    /\ chunks_file.exists
    /\ idx_chunks' = chunks_file.chunks
    /\ idx_filtered' = Filtered(chunks_file.chunks)
    /\ idx_pc' = "filtered"
    /\ UNCHANGED <<idx_old, store>>

\* main(): delete the collection if it exists.
IdxDelete ==
    /\ idx_pc = "filtered"
    /\ idx_old' = IF Exists(store) THEN DOMAIN store[COLLECTION_NAME] ELSE {}
    /\ store' = Cleared(store)
    /\ idx_pc' = "deleted"
    /\ UNCHANGED <<idx_chunks, idx_filtered>>

\* main(): collection = client.get_or_create_collection(...)
IdxCreate ==
    /\ idx_pc = "deleted"
    /\ store' = GotOrCreated(store)
    /\ idx_pc' = "created"
    /\ UNCHANGED <<idx_chunks, idx_filtered, idx_old>>

\* main(): encode the kept chunks and collection.add them, in one call.
IdxAdd ==
    /\ idx_pc = "created"
    /\ store' = Added(store, idx_filtered)
    /\ idx_pc' = "done"
    /\ UNCHANGED <<idx_chunks, idx_filtered, idx_old>>

\* main(): collection.add of an empty batch, in a Chroma that rejects it.
IdxAddRejected ==
    /\ idx_pc = "created"
    /\ idx_filtered = <<>>
    /\ idx_pc' = "failed"
    /\ UNCHANGED <<idx_chunks, idx_filtered, idx_old, store>>

---------------------------------------------------------------------------
(* answer_question.py: get_relevant_chunks; retrieve.py: main *)

DEFAULT_K == 5

\* bool(doc_id)
Truthy(doc_id) == doc_id # NoDocId /\ doc_id # ""

\* A query that never passes a filter.
NoWhereClause(doc_id) == [key \in {} |-> ""]

\* if doc_id: query_kwargs["where"] = {"doc_id": doc_id}
WhereClause(doc_id) ==
    IF Truthy(doc_id) THEN [key \in {"doc_id"} |-> doc_id] ELSE [key \in {} |-> ""]

\* A result list one short of n_results.
QueryResultsShort(coll, req) ==
    Query(coll, encode(req.question), req.k - 1, WhereClause(req.doc_id))

\* results = collection.query(**query_kwargs); list(zip(docs, metas, dists))
QueryResults(coll, req) ==
    Query(coll, encode(req.question), req.k, WhereClause(req.doc_id))

\* What the store and the Indexer are as the reader touches the store.
Observed(absent) ==
    [absent |-> absent,
     rebuilding |-> idx_pc \in {"deleted", "created"},
     built |-> idx_pc = "done",
     old |-> idx_old,
     new |-> {str(idx_filtered[i].chunk_id) : i \in 1..Len(idx_filtered)}]

\* The call is made: get_relevant_chunks(question, k, doc_id), or retrieve.py
\* reading its question (an empty one ends the script at once).
RdrStart(req) ==
    /\ rd_pc = "idle"
    /\ rd_req' = req
    /\ rd_obs' = NoObservation
    /\ IF req.entry = "retrieve" /\ req.question = <<>>
       THEN rd_pc' = "done" /\ rd_out' = [outcome |-> "empty_question", results |-> <<>>]
       ELSE rd_pc' = "started" /\ rd_out' = NoOutcome
    /\ UNCHANGED store

\* get_relevant_chunks: collection = client.get_collection(name=COLLECTION_NAME)
RdrGetCollection ==
    /\ rd_pc = "started"
    /\ rd_req.entry = "get_relevant_chunks"
    /\ rd_obs' = [rd_obs EXCEPT !.absent = ~Exists(store)]
    /\ IF Exists(store)
       THEN rd_pc' = "got" /\ rd_out' = rd_out
       ELSE rd_pc' = "done" /\ rd_out' = [outcome |-> "error", results |-> <<>>]
    /\ UNCHANGED <<rd_req, store>>

\* retrieve.py: collection = client.get_or_create_collection(name=COLLECTION_NAME)
RdrGetOrCreate ==
    /\ rd_pc = "started"
    /\ rd_req.entry = "retrieve"
    /\ rd_obs' = [rd_obs EXCEPT !.absent = ~Exists(store)]
    /\ store' = GotOrCreated(store)
    /\ rd_pc' = "got"
    /\ UNCHANGED <<rd_req, rd_out>>

\* collection.query(...) and the triples made of its answer; the query fails
\* if the collection has been deleted since the reader got it.
RdrQuery ==
    /\ rd_pc = "got"
    /\ rd_obs' = Observed(rd_obs.absent)
    /\ IF Exists(store)
       THEN rd_out' = [outcome |-> "ok",
                       results |-> QueryResults(store[COLLECTION_NAME], rd_req)]
       ELSE rd_out' = [outcome |-> "error", results |-> <<>>]
    /\ rd_pc' = "done"
    /\ UNCHANGED <<rd_req, store>>

\* The call returns; nothing of it is kept.
RdrReturn ==
    /\ rd_pc = "done"
    /\ rd_pc' = "idle"
    /\ rd_req' = NoRequest
    /\ rd_out' = NoOutcome
    /\ rd_obs' = NoObservation
    /\ UNCHANGED store

---------------------------------------------------------------------------
(* Inputs of the chunker *)

MaxLen == 4
MaxParas == 3
MaxPages == 3

Alphabet == {"a", " ", "\n", "\r"}

\* Every text over Alphabet of at most MaxLen characters.
ShortTexts == UNION {[1..n -> Alphabet] : n \in 0..MaxLen}

Rep(c, n) == [i \in 1..n |-> c]

\* t with tok written over it from offset pos.
Overwrite(t, pos, tok) ==
    [i \in 1..Len(t) |-> IF i > pos /\ i <= pos + Len(tok) THEN tok[i - pos] ELSE t[i]]

\* Paragraph lengths around the limit: 399 + 2 + 399 = 800 fits, 399 + 2 + 400 does not.
ParaLens == {300, 399, 400, 1000}

\* Pages of 1..MaxParas paragraphs of those lengths, a blank line between them.
LongTexts ==
    {Join([i \in 1..Len(ls) |-> Rep("a", ls[i])]) :
        ls \in UNION {[1..n -> ParaLens] : n \in 1..MaxParas}}

Three300 == Join(<<Rep("a", 300), Rep("a", 300), Rep("a", 300)>>)
One1000 == Rep("a", 1000)

\* extract_text.py: title and doc_id are the file's stem, source its name.
MkPage(doc, n, text) ==
    [doc_id |-> doc, title |-> doc, page |-> n, source |-> doc \o ".pdf", text |-> text]

\* pages.json of two documents: the first k pages are d1's, the rest d2's.
MkRun(ts, k) ==
    [i \in 1..Len(ts) |-> IF i <= k THEN MkPage("d1", i, ts[i])
                                     ELSE MkPage("d2", i - k, ts[i])]

LoopTexts == {<<>>, <<"a">>, <<"a", "\n", "\n", "a">>, Three300}

ChunkInputs ==
    {<<MkPage("d1", 1, t)>> : t \in ShortTexts \cup LongTexts \cup {None}}
    \cup {MkRun(ts, k) : ts \in UNION {[1..n -> LoopTexts] : n \in 0..MaxPages},
                         k \in 0..MaxPages}

\* 50 characters of filler, and one well-formed paragraph of 900 characters.
Filler50 == Rep("x", 50)
Para900 == Rep("a", 900)

\* A paragraph of 160 characters that carries an ISBN.
ParaISBN == Overwrite(Rep("c", 160), 20, <<"I", "S", "B", "N", " ", "1", "2", "3">>)

\* One document of two pages: filler, then the 900-character paragraph.
CorpusE2E == <<MkPage("d1", 1, Filler50), MkPage("d1", 2, Para900)>>

\* Two documents: d1 (a content page, an ISBN page), d2 (a content page, an empty page).
CorpusTwoDocs ==
    <<MkPage("d1", 1, Rep("b", 200)), MkPage("d1", 2, ParaISBN),
      MkPage("d2", 1, Rep("a", 150)), MkPage("d2", 2, <<>>)>>

\* One document whose only chunk is too short to keep.
CorpusNoise == <<MkPage("d3", 1, Filler50)>>

Corpora == {CorpusE2E, CorpusTwoDocs, CorpusNoise}

Questions == {<<"w", "h", "o">>, <<"w", "h", "a", "t">>}

\* get_relevant_chunks(question, k, doc_id), and retrieve.py's input() (n_results=5).
Requests ==
    {[entry |-> "get_relevant_chunks", question |-> q, k |-> k, doc_id |-> d] :
        q \in Questions, k \in {1, DEFAULT_K}, d \in {NoDocId, "", "d1", "d2"}}
    \cup {[entry |-> "retrieve", question |-> q, k |-> DEFAULT_K, doc_id |-> NoDocId] :
        q \in {<<>>, <<"w", "h", "o">>}}

---------------------------------------------------------------------------
(* The state before anything has run *)

Init ==
    /\ ing_pc = "idle" /\ pages = <<>> /\ page_idx = 0 /\ page_chunks = <<>>
    /\ next_chunk_id = 0 /\ all_chunks = <<>> /\ chunks_file = NoFile
    /\ nz_text = <<>> /\ nz_result = NoResult
    /\ idx_pc = "idle" /\ idx_chunks = <<>> /\ idx_filtered = <<>> /\ idx_old = {}
    /\ store = NoStore
    /\ rd_pc = "idle" /\ rd_req = NoRequest /\ rd_out = NoOutcome
    /\ rd_obs = NoObservation

---------------------------------------------------------------------------
(* SpecChunk: one run of chunk_pages.main over any input of ChunkInputs *)

StartRun ==
    /\ ing_pc = "idle"
    /\ \E input \in ChunkInputs : ReadPages(input)
    /\ UNCHANGED <<noiseVars, indexVars, store, readVars>>

ChunkStep ==
    /\ ChunkNextPage
    /\ UNCHANGED <<noiseVars, indexVars, store, readVars>>

WriteStep ==
    /\ WriteChunks
    /\ UNCHANGED <<noiseVars, indexVars, store, readVars>>

NextChunk == StartRun \/ ChunkStep \/ WriteStep

SpecChunk == Init /\ [][NextChunk]_vars

\* The page the last chunk_page call was given, and its paragraphs.
LastPage == pages[page_idx]
LastText == IF LastPage.text = None THEN <<>> ELSE LastPage.text
LastParas == split_paragraphs(LastPage.text)
AfterCall == ing_pc = "loop" /\ page_idx >= 1

\* The paragraphs of ps (by index) that lie inside chunk c's offsets.
Group(ps, c) ==
    {i \in 1..Len(ps) : ps[i].start >= c.char_start /\ ps[i].end <= c.char_end}
Lo(S) == CHOOSE i \in S : \A j \in S : i <= j
Hi(S) == CHOOSE i \in S : \A j \in S : i >= j

(* C1: the chunk ids emitted over all pages and documents of a run are exactly
   0, 1, ..., n-1 in emission order, and every chunk_page call returns its
   start id plus the number of chunks it emitted (so the counter always equals
   the number of chunks emitted so far, and an empty page leaves it alone). *)
C1_IdsContiguous ==
    /\ \A i \in 1..Len(all_chunks) : all_chunks[i].chunk_id = i - 1
    /\ next_chunk_id = Len(all_chunks)
    /\ Len(page_chunks) <= Len(all_chunks)
    /\ \A i \in 1..Len(page_chunks) :
          page_chunks[i] = all_chunks[Len(all_chunks) - Len(page_chunks) + i]

\* Two documents, a page with no chunks between pages with chunks, ids 0..3.
C1_Witness ==
    /\ ing_pc = "loop"
    /\ page_idx = 3
    /\ Len(pages) = 3
    /\ pages[1].doc_id # pages[3].doc_id
    /\ pages[1].text = Three300 /\ pages[2].text = <<>> /\ pages[3].text = Three300
    /\ Len(all_chunks) = 4
    /\ all_chunks[4].chunk_id = 3 /\ all_chunks[4].doc_id = "d2"

(* C8: the chunks of a page group its non-empty paragraphs greedily and in
   order: the groups are consecutive runs covering all paragraphs, a chunk's
   text is its paragraphs joined by blank lines, a group of two or more
   paragraphs is at most MAX_CHARS_PER_CHUNK long, and a group ends only where
   the next paragraph would not have fitted.  Three 300-character paragraphs
   give 2 chunks (two paragraphs, then one); one 1000-character paragraph
   gives 1 chunk of 1000 characters. *)
C8_GreedyGrouping ==
    AfterCall =>
        LET cs == page_chunks
            ps == LastParas
            g == [k \in 1..Len(cs) |-> Group(ps, cs[k])]
            lo == [k \in 1..Len(cs) |-> Lo(g[k])]
            hi == [k \in 1..Len(cs) |-> Hi(g[k])]
        IN /\ (ps = <<>>) = (cs = <<>>)
           /\ \A k \in 1..Len(cs) : g[k] # {}
           /\ \A k \in 1..Len(cs) :
                 /\ g[k] = lo[k]..hi[k]
                 /\ cs[k].text = Join([i \in 1..(hi[k] - lo[k] + 1) |->
                                          ps[lo[k] + i - 1].text])
                 /\ hi[k] > lo[k] => Len(cs[k].text) <= MAX_CHARS_PER_CHUNK
                 /\ lo[k] = IF k = 1 THEN 1 ELSE hi[k - 1] + 1
                 /\ k = Len(cs) => hi[k] = Len(ps)
                 /\ k < Len(cs) =>
                        Len(cs[k].text) + 2 + Len(ps[hi[k] + 1].text)
                            > MAX_CHARS_PER_CHUNK
           /\ LastText = Three300 =>
                 /\ Len(cs) = 2
                 /\ Cardinality(g[1]) = 2 /\ Cardinality(g[2]) = 1
           /\ LastText = One1000 => Len(cs) = 1 /\ Len(cs[1].text) = 1000

\* A page whose first two paragraphs fill a chunk exactly and whose third starts the next.
C8_Witness ==
    /\ AfterCall
    /\ LastText = Join(<<Rep("a", 399), Rep("a", 399), Rep("a", 300)>>)
    /\ Len(page_chunks) = 2
    /\ Len(page_chunks[1].text) = MAX_CHARS_PER_CHUNK

(* C9: every chunk's char_start and char_end are offsets into the page text as
   it was passed in: 0 <= char_start < char_end <= len(T), T[char_start:char_end]
   begins and ends with the chunk's first and last characters once trimmed, and
   for a chunk of one paragraph it is, trimmed, the chunk's text. *)
C9_OffsetsInPageText ==
    AfterCall =>
        \A k \in 1..Len(page_chunks) :
            LET c == page_chunks[k]
                span == Strip(Slice(LastText, c.char_start, c.char_end))
            IN /\ 0 <= c.char_start /\ c.char_start < c.char_end
               /\ c.char_end <= Len(LastText)
               /\ span # <<>>
               /\ span[1] = c.text[1]
               /\ span[Len(span)] = c.text[Len(c.text)]
               /\ Cardinality(Group(LastParas, c)) = 1 => span = c.text

---------------------------------------------------------------------------
(* SpecNoise: one call of is_noise on any text of NoiseInputs *)

NoToken == <<>>
TokenISBN123 == <<"I", "S", "B", "N", " ", "1", "2", "3">>
Tokens1 ==
    {NoToken, TokenISBN123, <<"i", "s", "s", "n">>, <<"D", "o", "i">>,
     <<"u", "r", "n", ":">>, <<"u", "r", "n">>, <<"S", "o", "u", "r", "c", "e", "s">>,
     <<"h", "t", "t", "p", ":", "/", "/">>, <<"H", "T", "T", "P", "S", ":", "/", "/">>,
     <<"w", "w", "w", ".">>}
Tokens2 == {NoToken, <<"h", "t", "t", "p", ":", "/", "/">>, <<"W", "w", "w", ".">>}

\* Total lengths around the 150 threshold, and the two the documentation names.
TextLens == {100, 149, 150, 200}
\* Whitespace before and after the body.
Pads == {0, 51}
\* Offsets of the first token in the body: "sources" at 43 ends at 50, at 44 it does not.
TokenOffsets == {0, 43, 44, 60}

\* pl spaces, a body of x's carrying tok1 at pos1 and tok2 at its end, pr spaces.
MkText(n, pl, pr, tok1, pos1, tok2) ==
    LET body == Rep("x", n - pl - pr)
        with1 == Overwrite(body, pos1, tok1)
        with2 == Overwrite(with1, Len(body) - Len(tok2), tok2)
    IN Rep(" ", pl) \o with2 \o Rep(" ", pr)

NoiseInputs ==
    {MkText(q[1], q[2], q[3], q[4], q[5], q[6]) :
        q \in {r \in TextLens \X Pads \X Pads \X Tokens1 \X TokenOffsets \X Tokens2 :
                 r[5] + Len(r[4]) + Len(r[6]) <= r[1] - r[2] - r[3]}}

NoiseCall ==
    /\ ~nz_result.called
    /\ \E text \in NoiseInputs :
          /\ nz_text' = text
          /\ nz_result' = [called |-> TRUE, noise |-> is_noise(text)]
    /\ UNCHANGED <<chunkVars, indexVars, store, readVars>>

NextNoise == NoiseCall

SpecNoise == Init /\ [][NextNoise]_vars

\* tok occurs in text at some offset below `within`, letter case ignored.
HasToken(text, tok, within) ==
    \E i \in 0..(Len(text) - Len(tok)) :
        /\ i + Len(tok) <= within
        /\ \A j \in 1..Len(tok) : LowerChar(text[i + j]) = tok[j]

\* The offsets at which one of the three URL literals starts, letter case ignored.
UrlStarts(text) ==
    {i \in 0..Len(text) : \E tok \in {HTTP, HTTPS, WWW} :
        /\ i + Len(tok) <= Len(text)
        /\ \A j \in 1..Len(tok) : LowerChar(text[i + j]) = tok[j]}

HasTrigger(text) ==
    \/ \E tok \in {ISBN, ISSN, DOI, URN, SOURCES, HTTP, HTTPS, WWW} :
          HasToken(text, tok, Len(text))

Trimmed(text) == text # <<>> /\ ~IsSpace(text[1]) /\ ~IsSpace(text[Len(text)])

Called == nz_result.called

(* C10 (as amended): is_noise(text) is true exactly when one of the four rules
   matches: text contains isbn, issn, doi or urn: in any letter case; or
   "sources" in any case within its first 50 characters; or two or more
   occurrences in total of http://, https://, www.; or fewer than 150
   characters once trimmed.  A text containing "ISBN 123" is noise, a text of
   100 characters is noise, and a text of 200 characters with no leading or
   trailing whitespace and none of the trigger substrings is not noise. *)
C10_NoiseRules ==
    Called =>
        /\ nz_result.noise =
              (\/ \E tok \in {ISBN, ISSN, DOI, URN} : HasToken(nz_text, tok, Len(nz_text))
               \/ HasToken(nz_text, SOURCES, SOURCES_WINDOW)
               \/ Cardinality(UrlStarts(nz_text)) >= URL_LIMIT
               \/ \A i, j \in {n \in 1..Len(nz_text) : ~IsSpace(nz_text[n])} :
                     j - i + 1 < MIN_CONTENT_CHARS)
        /\ Contains(nz_text, TokenISBN123) => nz_result.noise = TRUE
        /\ Len(nz_text) = 100 => nz_result.noise = TRUE
        /\ (Len(nz_text) = 200 /\ Trimmed(nz_text) /\ ~HasTrigger(nz_text))
              => nz_result.noise = FALSE

\* A trimmed text of 200 characters with no trigger substring was judged content.
C10_Witness ==
    /\ Called
    /\ Len(nz_text) = 200 /\ Trimmed(nz_text) /\ ~HasTrigger(nz_text)
    /\ nz_result.noise = FALSE

\* C10 as stated: a 200-character chunk with none of the trigger substrings is never noise.
C10_Any200NotNoise ==
    (Called /\ Len(nz_text) = 200 /\ ~HasTrigger(nz_text)) => nz_result.noise = FALSE

---------------------------------------------------------------------------
(* Spec: ingestion runs, index builds and readers over one store.  The
   Indexer's delete, create and add and the reader's get and query interleave
   freely.  Steps that touch no state another process reads are ordered: a
   run of chunk_pages.main, and the Indexer's load, start while the reader is
   idle, and a finished call returns before anything else moves. *)

Quiet == ing_pc # "loop" /\ rd_pc # "done"

Reingest ==
    /\ idx_pc \in {"idle", "done", "failed"}
    /\ rd_pc = "idle"
    /\ \E input \in Corpora : ReadPages(input)
    /\ UNCHANGED <<noiseVars, indexVars, store, readVars>>

BuildLoad ==
    /\ Quiet
    /\ rd_pc = "idle"
    /\ IdxLoad
    /\ UNCHANGED <<chunkVars, noiseVars, readVars>>

BuildDelete ==
    /\ Quiet
    /\ IdxDelete
    /\ UNCHANGED <<chunkVars, noiseVars, readVars>>

BuildCreate ==
    /\ Quiet
    /\ IdxCreate
    /\ UNCHANGED <<chunkVars, noiseVars, readVars>>

BuildAdd ==
    /\ Quiet
    /\ IdxAdd
    /\ UNCHANGED <<chunkVars, noiseVars, readVars>>

BuildAddRejected ==
    /\ Quiet
    /\ IdxAddRejected
    /\ UNCHANGED <<chunkVars, noiseVars, readVars>>

ReadStart ==
    /\ ing_pc # "loop"
    /\ \E req \in Requests : RdrStart(req)
    /\ UNCHANGED <<chunkVars, noiseVars, indexVars>>

ReadGetCollection ==
    /\ RdrGetCollection
    /\ UNCHANGED <<chunkVars, noiseVars, indexVars>>

ReadGetOrCreate ==
    /\ RdrGetOrCreate
    /\ UNCHANGED <<chunkVars, noiseVars, indexVars>>

ReadQuery ==
    /\ RdrQuery
    /\ UNCHANGED <<chunkVars, noiseVars, indexVars>>

ReadReturn ==
    /\ RdrReturn
    /\ UNCHANGED <<chunkVars, noiseVars, indexVars>>

\* Any step of a reader.
ReadStep == ReadStart \/ ReadGetCollection \/ ReadGetOrCreate \/ ReadQuery \/ ReadReturn

Next ==
    \/ Reingest \/ ChunkStep \/ WriteStep
    \/ BuildLoad \/ BuildDelete \/ BuildCreate \/ BuildAdd \/ BuildAddRejected
    \/ ReadStart \/ ReadGetCollection \/ ReadGetOrCreate \/ ReadQuery \/ ReadReturn

Spec == Init /\ [][Next]_vars

\* The build under way or last finished is of the two-page document of CorpusE2E.
IsE2EBuild ==
    /\ Len(idx_chunks) = 2
    /\ idx_chunks[1].doc_id = "d1" /\ idx_chunks[2].doc_id = "d1"
    /\ idx_chunks[1].page = 1 /\ idx_chunks[1].text = Filler50
    /\ idx_chunks[2].page = 2 /\ idx_chunks[2].text = Para900

\* The index holds chunks of at least two documents.
TwoDocsIndexed ==
    /\ idx_pc = "done"
    /\ Cardinality({idx_filtered[i].doc_id : i \in 1..Len(idx_filtered)}) >= 2

\* A call of get_relevant_chunks has just produced its outcome.
Retrieved == rd_pc = "done" /\ rd_req.entry = "get_relevant_chunks"

\* The chunk ids of the returned triples, as the store keys them.
ResultIds == {str(rd_out.results[r][2].chunk_id) : r \in 1..Len(rd_out.results)}

(* C2: indexing the two-page document (50 characters of filler, then one
   900-character paragraph) leaves exactly one index entry, and a retrieval
   scoped to its doc_id with k=5 over that index returns exactly that one
   result. *)
C2_EndToEnd ==
    /\ (idx_pc = "done" /\ IsE2EBuild) =>
          Exists(store) /\ DOMAIN store[COLLECTION_NAME] = {"1"}
    /\ (Retrieved /\ idx_pc = "done" /\ IsE2EBuild /\ rd_obs.built
            /\ rd_req.doc_id = "d1" /\ rd_req.k = 5) =>
          /\ rd_out.outcome = "ok"
          /\ Len(rd_out.results) = 1
          /\ rd_out.results[1][1] = Para900

(* C3: whenever a build has completed, the collection holds exactly one entry,
   keyed by str(chunk_id), for each chunk of that build's chunk set that is
   not noise, none for a noise chunk, and none from an earlier build. *)
C3_CurrentGeneration ==
    idx_pc = "done" =>
        /\ Exists(store)
        /\ LET coll == store[COLLECTION_NAME]
           IN /\ \A i \in 1..Len(idx_chunks) :
                    LET c == idx_chunks[i]
                    IN IF is_noise(c.text)
                       THEN str(c.chunk_id) \notin DOMAIN coll
                       ELSE /\ str(c.chunk_id) \in DOMAIN coll
                            /\ coll[str(c.chunk_id)].document = c.text
                            /\ coll[str(c.chunk_id)].metadata.chunk_id = c.chunk_id
                            /\ coll[str(c.chunk_id)].metadata.page = c.page
              /\ \A id \in DOMAIN coll :
                    \E i \in 1..Len(idx_chunks) : str(idx_chunks[i].chunk_id) = id

\* A rebuild replaced a generation {0, 2} by the generation {1}, dropping a noise chunk.
C3_Witness ==
    /\ idx_pc = "done"
    /\ idx_old = {"0", "2"}
    /\ IsE2EBuild
    /\ DOMAIN store[COLLECTION_NAME] = {"1"}

(* C4 (as amended): a get_relevant_chunks call given a non-empty doc_id never
   returns a result whose metadata doc_id differs from it, for every
   question, every k and every index. *)
C4_ScopedResultsMatch ==
    (Retrieved /\ Truthy(rd_req.doc_id)) =>
        \A r \in 1..Len(rd_out.results) :
            MetaGet(rd_out.results[r][2], "doc_id") = rd_req.doc_id

\* A scoped call has run over the index of two documents.
C4_Witness ==
    /\ Retrieved /\ rd_out.outcome = "ok"
    /\ rd_req.doc_id = "d1" /\ rd_req.k = DEFAULT_K
    /\ TwoDocsIndexed /\ rd_obs.built

\* C4 as stated: the same for every scope value, the empty string included.
C4_AnyScopeValue ==
    (Retrieved /\ TwoDocsIndexed /\ rd_obs.built /\ rd_req.doc_id # NoDocId) =>
        \A r \in 1..Len(rd_out.results) :
            MetaGet(rd_out.results[r][2], "doc_id") = rd_req.doc_id

(* C5: a retrieval that finds the collection missing ends in a fatal error,
   never in an answer of zero results. *)
C5_MissingCollectionIsFatal ==
    (rd_pc = "done" /\ rd_obs.absent) => rd_out.outcome = "error"

(* C6: a reader whose query meets a stable collection sees the complete
   generation; one whose query falls between the Indexer's delete and its add
   finds the collection missing or empty, a state that is neither the old
   generation nor the new one. *)
C6_RebuildWindow ==
    (Retrieved /\ rd_req.doc_id = NoDocId /\ rd_req.k >= Cardinality(rd_obs.new)) =>
        /\ rd_obs.built => rd_out.outcome = "ok" /\ ResultIds = rd_obs.new
        /\ rd_obs.rebuilding => rd_out.outcome = "error" \/ rd_out.results = <<>>

\* A reader is answered "no results" while a non-empty generation replaces another.
C6_TransientlyEmpty ==
    /\ Retrieved /\ rd_req.doc_id = NoDocId /\ rd_req.k = DEFAULT_K
    /\ rd_obs.rebuilding
    /\ rd_obs.old # {} /\ rd_obs.new # {} /\ rd_obs.old # rd_obs.new
    /\ rd_out.outcome = "ok" /\ rd_out.results = <<>>

(* C7: no step of a retrieval changes the set of collections or the entries
   of any collection. *)
C7_RetrievalReadOnly == [][ReadStep => store' = store]_vars

====
